---- MODULE Spec2Model ----
(***************************************************************************)
(* A model of usercorn's emulation harness (go/usercorn.go and the POSIX  *)
(* kernel personality): the address-space builder (mapBinary, the brk     *)
(* seeding of NewUsercorn, Brk) and the execution driver's tracing hooks  *)
(* (block hook, code hook with deadlock detection), the syscall dispatch,  *)
(* the path sandbox (PrefixPath, Open, Stat), Getcwd and Symbolicate.     *)
(*                                                                         *)
(* Guest addresses are uint64 in the source.  TLC's integers are 32 bit,  *)
(* so the model keeps the wrap-around arithmetic but in a narrower word   *)
(* (Word); every address the model uses is far below it.                  *)
(***************************************************************************)
EXTENDS Integers, Sequences, FiniteSets, TLC

\* ------------------------------------------------------------------ bounds
\* longest raw segment list of the images drawn for the merge specification
MaxSegs == 3
\* longest raw segment list of the images drawn for the loader specification
MaxLoadSegs == 2
\* number of Brk calls a run of the loader specification makes
MaxBrkCalls == 2
\* number of guest instruction addresses the traced program runs over
MaxPC == 2
\* the guest's register file takes the values 1..MaxReg
MaxReg == 2
\* the observers' run counters stop counting here
RunCap == 5
\* longest kernel list of the syscall specification
MaxKernels == 2
\* longest symbol table of the symbolication specification
MaxSyms == 2
\* most accesses a pending memory batch holds
MaxBatch == 2

\* --------------------------------------------------------------- constants
PageSize == 4096
MmapHint == 16777216
PROT_READ == 1
PROT_WRITE == 2
PROT_EXEC == 4
PROT_ALL == 7
PROT_NONE == 0
STACK_BASE == 536870912
STACK_SIZE == 8388608
Word == 2^30

Add64(a, b) == (a + b) % Word
Sub64(a, b) == (a - b + Word) % Word

Min(S) == CHOOSE x \in S : \A y \in S : x <= y
Max(S) == CHOOSE x \in S : \A y \in S : x >= y

Bit(x, k) == (x \div k) % 2
BitOr(a, b) ==
    LET or1(k) == IF Bit(a, k) = 1 \/ Bit(b, k) = 1 THEN k ELSE 0
    IN  or1(1) + or1(2) + or1(4)
BitAnd(a, b) ==
    LET and1(k) == IF Bit(a, k) = 1 /\ Bit(b, k) = 1 THEN k ELSE 0
    IN  and1(1) + and1(2) + and1(4)

PageDown(a) == a - (a % PageSize)
PageUp(a) == PageDown(a + PageSize - 1)
Aligned(a) == a % PageSize = 0
\* the engine's mapping granule: a page
UC_MEM_ALIGN == PageSize

\* ------------------------------------------------------------------- state
VARIABLES
    \* the Loader capability of the main image and of the file its Interp() names
    loader, interpFile,
    \* configuration
    ForceBase, ForceInterpBase,
    \* how the memory facade treats a request that is not page-aligned
    facade,
    \* NewUsercorn's progress: "new", "ready" (returned u) or "failed" (returned err)
    stage,
    \* the engine's mappings: a set of [start, end, prot, how]
    memory,
    \* Usercorn fields
    base, interpBase, entry, binEntry, brk,
    \* mapBinary's local `merged` for the main image
    merged,
    \* Brk calls made so far, and the last one: [arg, before, ret, err, memBefore]
    brkCalls, lastBrk,
    \* tracing configuration
    Verbose, TraceExec, TraceReg, TraceMatch, TraceMatchDepth,
    \* Usercorn fields of the tracing hooks
    traceMatching, lastCode, deadlock,
    \* StatusDiff's snapshot: the register values Changes() last saw
    status,
    \* the engine: "idle", "running" or "stopped"; the guest's registers; the
    \* address of the instruction at hand; the callback due for it
    \* ("block", "code") or its execution ("exec")
    engine, regs, curPC, due,
    \* the FATAL deadlock line was printed
    fatal,
    \* observers: the code-hook invocations that passed the trace-match gate
    \* (obs*) and all of them, one per guest instruction (exec*): the address
    \* last seen, whether a register changed since, and how many in a row were
    \* at one address with no register change between them
    obsPC, obsDirty, obsRun, execPC, execDirty, execRun,
    \* the path sandbox: Usercorn.LoadPrefix, what the host's os.Stat answers for
    \* a path joined under it, and the path mapBinary handed to LoadFileArch
    LoadPrefix, hostStat, interpPath,
    \* observer: how many times mapBinary was entered by NewUsercorn
    mapCalls,
    \* Usercorn.kernels, in list order
    kernels,
    \* loader.Symbols() and interpLoader.Symbols()
    symbols, interpSymbols,
    \* the host's working directory
    wd,
    \* the last call of a kernel or emulator operation, with what it did
    call,
    \* Usercorn.StackBase, the stack pointer register as mapStack wrote it, and
    \* Usercorn.exitStatus: [nil, status]
    StackBase, SP, exitStatus,
    \* what Run returned: [returned, err, status], err one of "nil", "setup"
    \* (hooks, stack or OS init failed), "engine" (Start's error), "exit"
    runResult,
    \* the last access the engine refused: [access, addr]
    lastFault,
    \* the hook kind whose HookAdd the engine refuses ("none": it refuses none),
    \* the hook kinds installed, and an observer: the steps Run has taken
    hookAddErr, hooks, runSteps,
    \* memory tracing configuration and Usercorn.memlog, the pending batch:
    \* a sequence of [addr, size, write]
    TraceMem, TraceMemBatch, memlog,
    \* observers: whether the block the guest is in matches TraceMatch, and the
    \* last per-instruction or memory-trace output: [kind, matched], matched
    \* being blockMatches when it was produced
    blockMatches, lastOut

loadVars == <<loader, interpFile, ForceBase, ForceInterpBase, facade, stage,
              memory, base, interpBase, entry, binEntry, brk, merged,
              brkCalls, lastBrk, mapCalls>>

traceVars == <<Verbose, TraceExec, TraceReg, TraceMatch, TraceMatchDepth,
               traceMatching, lastCode, deadlock, status, engine, regs, curPC,
               due, fatal, obsPC, obsDirty, obsRun, execPC, execDirty, execRun>>

kernelVars == <<LoadPrefix, hostStat, kernels, symbols, interpSymbols, wd>>

runVars == <<StackBase, SP, exitStatus, runResult, lastFault, hookAddErr,
             hooks, runSteps>>

memVars == <<TraceMem, TraceMemBatch, memlog, blockMatches, lastOut>>

vars == <<loadVars, traceVars, kernelVars, interpPath, call, runVars, memVars>>

\* ------------------------------------------------- guest memory facade
\* align(addr, size, true): addr rounded down, addr+size rounded up to a page
align(addr, size) ==
    [addr |-> PageDown(addr), size |-> PageUp(addr + size) - PageDown(addr)]

RangesMeet(s1, e1, s2, e2) == s1 < e2 /\ s2 < e1

IsFree(mem, start, end) ==
    \A m \in mem : ~RangesMeet(m.start, m.end, start, end)

\* the engine's own mapping call: page-aligned, non-empty, inside the address
\* space, and over no page that is already mapped
EngineMap(mem, addr, size, prot, how) ==
    IF Aligned(addr) /\ Aligned(size) /\ size > 0 /\ addr + size <= Word
       /\ IsFree(mem, addr, addr + size)
    THEN [err |-> FALSE,
          mem |-> mem \cup {[start |-> addr, end |-> addr + size,
                             prot |-> prot, how |-> how]}]
    ELSE [err |-> TRUE, mem |-> mem]

\* MemMapProt(addr, size, prot): maps [addr, addr+size) with exactly prot.  addr and
\* size must be page-aligned: a facade either hands the request to the engine as
\* it is ("strict", the engine refuses it) or rounds it to pages first ("round").
MemMapProt(mem, addr, size, prot) ==
    IF facade = "round"
    THEN LET a == align(addr, size)
         IN  IF addr + size > Word THEN [err |-> TRUE, mem |-> mem]
             ELSE EngineMap(mem, a.addr, a.size, prot, "map")
    ELSE EngineMap(mem, addr, size, prot, "map")

\* Mmap(hint, size): reserves the lowest free page-aligned region of >= size bytes
\* at or above hint, R|W, and returns its base
Mmap(mem, hint, size) ==
    LET sz == PageUp(size)
        lo == PageDown(hint)
        cands == {lo} \cup {m.end : m \in {x \in mem : x.end >= lo}}
        free == {a \in cands : IsFree(mem, a, a + sz)}
        addr == Min(free)
    IN  [err |-> FALSE, addr |-> addr,
         mem |-> mem \cup {[start |-> addr, end |-> addr + sz,
                            prot |-> BitOr(PROT_READ, PROT_WRITE), how |-> "mmap"]}]

\* MemWrite(addr, data): fails unless every byte written is mapped
MemWrite(mem, addr, len) ==
    len = 0 \/
    \A p \in (addr \div PageSize)..((addr + len - 1) \div PageSize) :
        \E m \in mem : m.start <= p * PageSize /\ p * PageSize < m.end

\* ------------------------------------------------------------ host paths
\* a path is the sequence of its components; an absolute path starts with the
\* root "/" : "/lib/ld.so" is <<"/", "lib", "ld.so">>, "" is <<>>
NoPath == <<>>

\* filepath.IsAbs
IsAbs(path) == Len(path) > 0 /\ path[1] = "/"

\* strings.Contains(path, "/lib/"): a component lib with a separator on each side
ContainsLib(path) == \E i \in 2..(Len(path) - 1) : path[i] = "lib"

\* filepath.Join(prefix, path) for an absolute path: one separator between them
Join(prefix, path) == IF IsAbs(path) THEN prefix \o Tail(path) ELSE prefix \o path

\* os.Stat's answers: no error, ENOENT, or another error (ENOTDIR: a parent of
\* the path is a regular file); os.IsNotExist is true of ENOENT alone
StatErrors == {"nil", "ENOENT", "ENOTDIR"}
IsNotExist(err) == err = "ENOENT"

PrefixPath(path, force) ==
    IF IsAbs(path) /\ LoadPrefix # NoPath
    THEN LET target == Join(LoadPrefix, path)
             exists == ~IsNotExist(hostStat)
         IN  IF force \/ exists THEN target ELSE path
    ELSE path

\* ------------------------------------------------------- models.Segment
Overlaps(s, o) == RangesMeet(s.Start, s.End, o.Start, o.End)

Merge(s, o) ==
    [Start |-> IF s.Start > o.Start THEN o.Start ELSE s.Start,
     End   |-> IF s.End < o.End THEN o.End ELSE s.End,
     Prot  |-> BitOr(s.Prot, o.Prot)]

\* --------------------------------------------------------------- mapBinary
\* the page-aligned span of a raw segment (usercorn.go:489-490)
alignedSegment(seg) ==
    LET a == align(seg.Addr, seg.Size)
    IN  [Start |-> a.addr, End |-> a.addr + a.size, Prot |-> seg.Prot]

\* the inner loop: fold s into the first merged span it overlaps, else append it
RECURSIVE mergeInto_replaces(_, _, _)
mergeInto_replaces(mrg, s, i) ==
    IF i > Len(mrg) THEN Append(mrg, s)
    ELSE IF Overlaps(mrg[i], s) THEN [mrg EXCEPT ![i] = s]
    ELSE mergeInto_replaces(mrg, s, i + 1)

RECURSIVE mergeInto(_, _, _)
mergeInto(mrg, s, i) ==
    IF i > Len(mrg) THEN Append(mrg, s)
    ELSE IF Overlaps(mrg[i], s) THEN [mrg EXCEPT ![i] = Merge(mrg[i], s)]
    ELSE mergeInto(mrg, s, i + 1)

\* the outer loop over the raw segments, in list order
RECURSIVE mergeFrom(_, _, _)
mergeFrom(spans, i, mrg) ==
    IF i > Len(spans) THEN mrg
    ELSE mergeFrom(spans, i + 1, mergeInto(mrg, spans[i], 1))

mergeSegments(segments) ==
    mergeFrom([i \in 1..Len(segments) |-> alignedSegment(segments[i])], 1, <<>>)

\* one iteration of the mapping loop
mapSegment(seg, dynamic, loadBias, mem) ==
    LET size == seg.End - seg.Start
    IN  IF dynamic /\ seg.Start = 0 /\ loadBias = 0
        THEN LET r == Mmap(mem, MmapHint, size)
             IN  [err |-> r.err, loadBias |-> r.addr, mem |-> r.mem]
        ELSE LET prot == IF seg.Prot = 0 THEN PROT_ALL ELSE seg.Prot
                 r == MemMapProt(mem, Add64(loadBias, seg.Start), size, prot)
             IN  [err |-> r.err, loadBias |-> loadBias, mem |-> r.mem]

\* the mapping loop: stops at the first error
RECURSIVE mapMerged(_, _, _, _, _)
mapMerged(mrg, i, dynamic, loadBias, mem) ==
    IF i > Len(mrg) THEN [err |-> FALSE, loadBias |-> loadBias, mem |-> mem]
    ELSE LET r == mapSegment(mrg[i], dynamic, loadBias, mem)
         IN  IF r.err THEN r
             ELSE mapMerged(mrg, i + 1, dynamic, r.loadBias, r.mem)

\* the write loop: every raw segment's data goes to loadBias + seg.Addr
writeSegments(segments, loadBias, mem) ==
    \A i \in 1..Len(segments) :
        MemWrite(mem, Add64(loadBias, segments[i].Addr), segments[i].Size)

imageEntry(loadBias, l) == Add64(loadBias, l.Entry)

mapFailed(mem, mrg) ==
    [err |-> TRUE, interpBase |-> 0, entry |-> 0, base |-> 0, realEntry |-> 0,
     mem |-> mem, merged |-> mrg, interpPath |-> NoPath, calls |-> 1]

\* what mapBinary returns once the interpreter's own mapBinary returned r2
interpResult_swapped(r2, path, loadBias, ent, mrg) ==
    [err |-> r2.err, interpBase |-> r2.realEntry, entry |-> r2.base,
     base |-> loadBias, realEntry |-> ent, mem |-> r2.mem, merged |-> mrg,
     interpPath |-> path, calls |-> 1 + r2.calls]

\* (path is the file LoadFileArch was given)
interpResult(r2, path, loadBias, ent, mrg) ==
    [err |-> r2.err, interpBase |-> r2.base, entry |-> r2.realEntry,
     base |-> loadBias, realEntry |-> ent, mem |-> r2.mem, merged |-> mrg,
     interpPath |-> path, calls |-> 1 + r2.calls]

\* loader.LoadFileArch(path, arch): the loader of the file the path names, or
\* an error when no file there can be loaded
NoFile == [Type |-> "NONE", Entry |-> 0, Interp |-> NoPath, Arch |-> "x86",
           Segments |-> <<>>]

LoadFileArch(path, arch) ==
    IF interpFile = NoFile THEN [err |-> TRUE, bin |-> NoFile]
    ELSE [err |-> FALSE, bin |-> interpFile]

\* the architecture check on the loaded interpreter
archMatches_any(bin, l) == TRUE

archMatches(bin, l) == bin.Arch = l.Arch

RECURSIVE mapBinary(_, _, _)
mapBinary(l, isInterp, mem) ==
    IF l.Type \notin {"EXEC", "DYN"} THEN mapFailed(mem, <<>>)
    ELSE
    LET dynamic == l.Type = "DYN"
        mrg == mergeSegments(l.Segments)
        bias0 == IF isInterp THEN ForceInterpBase ELSE ForceBase
        m == mapMerged(mrg, 1, dynamic, bias0, mem)
    IN  IF m.err THEN mapFailed(m.mem, mrg)
        ELSE IF ~writeSegments(l.Segments, m.loadBias, m.mem)
        THEN mapFailed(m.mem, mrg)
        ELSE LET ent == imageEntry(m.loadBias, l)
                 path == PrefixPath(l.Interp, TRUE)
                 f == LoadFileArch(path, l.Arch)
             IN  IF l.Interp # NoPath /\ ~isInterp
                 THEN IF f.err \/ ~archMatches(f.bin, l)
                      THEN [mapFailed(m.mem, mrg) EXCEPT !.entry = ent,
                                                         !.interpPath = path]
                      ELSE interpResult(mapBinary(f.bin, TRUE, m.mem), path,
                                        m.loadBias, ent, mrg)
                 ELSE [err |-> FALSE, interpBase |-> 0, entry |-> ent,
                       base |-> m.loadBias, realEntry |-> ent,
                       mem |-> m.mem, merged |-> mrg, interpPath |-> NoPath,
                       calls |-> 1]

\* --------------------------------------------------------------------- Brk
Brk_keepsAddrOnError(addr, curBrk, mem) ==
    IF addr > 0
    THEN LET r == MemMapProt(mem, curBrk, Sub64(addr, curBrk),
                             BitOr(PROT_READ, PROT_WRITE))
         IN  [brk |-> addr, ret |-> addr, err |-> r.err, mem |-> r.mem]
    ELSE [brk |-> curBrk, ret |-> curBrk, err |-> FALSE, mem |-> mem]

Brk(addr, curBrk, mem) ==
    IF addr > 0
    THEN LET r == MemMapProt(mem, curBrk, Sub64(addr, curBrk),
                             BitOr(PROT_READ, PROT_WRITE))
         IN  IF r.err
             THEN [brk |-> curBrk, ret |-> curBrk, err |-> TRUE, mem |-> mem]
             ELSE [brk |-> addr, ret |-> addr, err |-> FALSE, mem |-> r.mem]
    ELSE [brk |-> curBrk, ret |-> curBrk, err |-> FALSE, mem |-> mem]

\* PosixKernel.Brk: the guest gets Usercorn.Brk's value, the error is dropped
PosixBrk_returnsArg(addr, curBrk, mem) ==
    [Brk(addr, curBrk, mem) EXCEPT !.ret = IF addr > 0 THEN addr ELSE @]

PosixBrk(addr, curBrk, mem) == Brk(addr, curBrk, mem)

\* ------------------------------------------------------------- NewUsercorn
\* the loop that finds the data segment: the highest end of a writable segment
RECURSIVE dataTop(_, _, _, _)
dataTop(segments, i, b, top) ==
    IF i > Len(segments) THEN top
    ELSE LET seg == segments[i]
             addr == Add64(Add64(b, seg.Addr), seg.Size)
         IN  dataTop(segments, i + 1, b,
                     IF BitAnd(seg.Prot, PROT_WRITE) # 0 /\ addr > top
                     THEN addr ELSE top)

NoBrk == [arg |-> 0, before |-> 0, ret |-> 0, err |-> FALSE, memBefore |-> {}]

NoCall == [op |-> "none"]

NewUsercorn ==
    /\ stage = "new"
    /\ \E r \in {mapBinary(loader, FALSE, {})} :
         IF r.err
         THEN /\ stage' = "failed"
              /\ merged' = r.merged
              /\ memory' = r.mem
              /\ interpPath' = r.interpPath
              /\ mapCalls' = r.calls
              /\ UNCHANGED <<base, interpBase, entry, binEntry, brk>>
         ELSE \E top \in {dataTop(loader.Segments, 1, r.base, 0)} :
              \E b \in {Brk(PageDown(Add64(top, PageSize - 1)), top, r.mem)} :
                /\ stage' = "ready"
                /\ merged' = r.merged
                /\ interpPath' = r.interpPath
                /\ mapCalls' = r.calls
                /\ memory' = b.mem
                /\ interpBase' = r.interpBase
                /\ entry' = r.entry
                /\ base' = r.base
                /\ binEntry' = r.realEntry
                /\ brk' = b.brk
    /\ UNCHANGED <<loader, interpFile, ForceBase, ForceInterpBase, facade,
                   brkCalls, lastBrk>>
    /\ UNCHANGED <<traceVars, kernelVars, call, runVars, memVars>>

\* the addresses a guest asks for: a query, below, at and above the current brk
BrkArgs == {0, PageSize, brk, Add64(brk, 2048), Add64(PageUp(brk), PageSize)}

\* a guest brk syscall
BrkCall ==
    /\ stage = "ready"
    /\ brkCalls < MaxBrkCalls
    /\ \E addr \in BrkArgs :
         LET r == PosixBrk(addr, brk, memory)
         IN  /\ brk' = r.brk
             /\ memory' = r.mem
             /\ lastBrk' = [arg |-> addr, before |-> brk, ret |-> r.ret,
                            err |-> r.err, memBefore |-> memory]
    /\ brkCalls' = brkCalls + 1
    /\ UNCHANGED <<loader, interpFile, ForceBase, ForceInterpBase, facade,
                   stage, base, interpBase, entry, binEntry, merged, mapCalls>>
    /\ UNCHANGED <<traceVars, kernelVars, interpPath, call, runVars, memVars>>

\* -------------------------------------------------------- Usercorn.Syscall
\* a kernel maps a syscall name to its syscall, or to nil when it has none; a
\* syscall has an input signature of In slots and a handler whose return
\* value is ret
NilSys == [nil |-> TRUE, In |-> 0, ret |-> 0]

\* the loop over u.kernels from kernel i on: the first kernel with a syscall of
\* that name fetches len(sys.In) arguments and, unless getArgs fails, calls its
\* handler; invoked lists the kernels whose handler ran, fetched the argument
\* counts asked of getArgs
RECURSIVE dispatch_all(_, _, _, _)
dispatch_all(ks, i, name, argsOk) ==
    IF i > Len(ks)
    THEN [panic |-> TRUE, invoked |-> <<>>, fetched |-> <<>>, ret |-> 0,
          err |-> FALSE]
    ELSE LET sys == ks[i][name]
             rest == dispatch_all(ks, i + 1, name, argsOk)
         IN  IF ~sys.nil /\ argsOk
             THEN [panic |-> FALSE, invoked |-> <<i>> \o rest.invoked,
                   fetched |-> <<sys.In>> \o rest.fetched,
                   ret |-> IF rest.invoked = <<>> THEN sys.ret ELSE rest.ret,
                   err |-> FALSE]
             ELSE IF ~sys.nil
             THEN [panic |-> FALSE, invoked |-> <<>>, fetched |-> <<sys.In>>,
                   ret |-> 0, err |-> TRUE]
             ELSE rest

RECURSIVE dispatch(_, _, _, _)
dispatch(ks, i, name, argsOk) ==
    IF i > Len(ks)
    THEN [panic |-> TRUE, invoked |-> <<>>, fetched |-> <<>>, ret |-> 0,
          err |-> FALSE]
    ELSE LET sys == ks[i][name]
         IN  IF ~sys.nil
             THEN IF argsOk
                  THEN [panic |-> FALSE, invoked |-> <<i>>, fetched |-> <<sys.In>>,
                        ret |-> sys.ret, err |-> FALSE]
                  ELSE [panic |-> FALSE, invoked |-> <<>>, fetched |-> <<sys.In>>,
                        ret |-> 0, err |-> TRUE]
             ELSE dispatch(ks, i + 1, name, argsOk)

SysNames == {"open", "brk"}

\* Syscall(num, name, getArgs): a missing name panics before any kernel is asked
Syscall ==
    /\ stage = "ready"
    /\ \E name \in SysNames \cup {""}, argsOk \in BOOLEAN :
         LET r == IF name = ""
                  THEN [panic |-> TRUE, invoked |-> <<>>, fetched |-> <<>>,
                        ret |-> 0, err |-> FALSE]
                  ELSE dispatch(kernels, 1, name, argsOk)
         IN  call' = [op |-> "Syscall", name |-> name, argsOk |-> argsOk,
                      panic |-> r.panic, invoked |-> r.invoked,
                      fetched |-> r.fetched, ret |-> r.ret, err |-> r.err]
    /\ UNCHANGED <<loadVars, traceVars, kernelVars, interpPath, runVars, memVars>>

\* ------------------------------------------------------------ POSIX kernel
\* the path Open and Stat hand to the host's syscall
libPath_always(path) == PrefixPath(path, FALSE)

libPath(path) == IF ContainsLib(path) THEN PrefixPath(path, FALSE) ELSE path

\* the paths a guest passes
GuestPaths ==
    {<<"/", "lib", "x.so">>, <<"/", "etc", "passwd">>, <<"lib", "x.so">>,
     <<"usr", "lib", "x.so">>, <<"/", "lib">>, <<"data.txt">>}

Open ==
    /\ stage = "ready"
    /\ \E path \in GuestPaths :
         call' = [op |-> "Open", path |-> path, host |-> libPath(path)]
    /\ UNCHANGED <<loadVars, traceVars, kernelVars, interpPath, runVars, memVars>>

Stat ==
    /\ stage = "ready"
    /\ \E path \in GuestPaths :
         call' = [op |-> "Stat", path |-> path, host |-> libPath(path)]
    /\ UNCHANGED <<loadVars, traceVars, kernelVars, interpPath, runVars, memVars>>

\* a kernel or the OS initializer calls the emulator's PrefixPath
PrefixPathCall ==
    /\ stage = "ready"
    /\ \E path \in GuestPaths, force \in BOOLEAN :
         call' = [op |-> "PrefixPath", path |-> path, force |-> force,
                  ret |-> PrefixPath(path, force)]
    /\ UNCHANGED <<loadVars, traceVars, kernelVars, interpPath, runVars, memVars>>

\* the first n bytes of a string
Take(str, n) == SubSeq(str, 1, IF n < Len(str) THEN n ELSE Len(str))

\* Getcwd(buf, size): what it hands to buf.Pack; size is an unsigned co.Len,
\* so size - 1 wraps at 0
getcwd(dir, size) ==
    LET sz == Sub64(size, 1)
    IN  (IF Len(dir) > sz THEN Take(dir, sz) ELSE dir) \o <<0>>

GetcwdSizes == {0, 1, 2, 4, 5, 64}

Getcwd ==
    /\ stage = "ready"
    /\ \E size \in GetcwdSizes :
         call' = [op |-> "Getcwd", size |-> size, packed |-> getcwd(wd, size)]
    /\ UNCHANGED <<loadVars, traceVars, kernelVars, interpPath, runVars, memVars>>

\* ------------------------------------------------------------ Symbolicate
\* int64(x) of an unsigned word
Signed(x) == IF x >= Word \div 2 THEN x - Word ELSE x

NoSymbol == [Name |-> "", Start |-> 0, End |-> 0]

\* the inner closure's loop from symbol i on: min is the least distance so far
\* (-1: none), nearest the <<distance, index>> pairs of the symbols that qualify
RECURSIVE symbolicateFrom(_, _, _, _, _)
symbolicateFrom(addr, syms, i, min, nearest) ==
    IF i > Len(syms)
    THEN IF nearest # {}
         THEN [sym |-> syms[Min({n[2] : n \in {x \in nearest : x[1] = min}})],
               dist |-> min]
         ELSE [sym |-> NoSymbol, dist |-> 0]
    ELSE LET sym == syms[i]
             dist == Signed(Sub64(addr, sym.Start))
         IN  IF sym.Start = 0
             THEN symbolicateFrom(addr, syms, i + 1, min, nearest)
             ELSE IF /\ dist >= 0
                     /\ (Add64(sym.Start, dist) <= sym.End \/ sym.End = 0)
                     /\ sym.Name # ""
             THEN symbolicateFrom(addr, syms, i + 1,
                                  IF dist < min \/ min = -1 THEN dist ELSE min,
                                  nearest \cup {<<dist, i>>})
             ELSE symbolicateFrom(addr, syms, i + 1, min, nearest)

symbolicate(addr, syms) == symbolicateFrom(addr, syms, 1, -1, {})

\* fmt's %x
HexDigits == <<"0", "1", "2", "3", "4", "5", "6", "7", "8", "9",
               "a", "b", "c", "d", "e", "f">>
RECURSIVE Hex(_)
Hex(n) == IF n < 16 THEN <<HexDigits[n + 1]>>
          ELSE Hex(n \div 16) \o <<HexDigits[(n % 16) + 1]>>

\* a returned string: "" is <<>>, "f" is <<"f">>, "f+0xa" is <<"f", "+0x", "a">>
symbolString(sym, dist) ==
    IF sym.Name = "" THEN <<>>
    ELSE IF dist > 0 THEN <<sym.Name, "+0x">> \o Hex(dist)
    ELSE <<sym.Name>>

\* which of the main image's and the interpreter's candidate is reported
pickSymbol_interpOnTie(s, i) ==
    IF (i.dist <= s.dist /\ i.sym.Name # "") \/ s.sym.Name = "" THEN i ELSE s

pickSymbol(s, i) ==
    IF (i.dist < s.dist /\ i.sym.Name # "") \/ s.sym.Name = "" THEN i ELSE s

SymbolicateAddr(addr) ==
    LET s == symbolicate(Sub64(addr, base), symbols)
        i == symbolicate(Sub64(addr, interpBase), interpSymbols)
        r == pickSymbol(s, i)
    IN  symbolString(r.sym, r.dist)

\* the offsets into an image at which a PC is symbolicated
SymOffsets == {0, 50, 100, 110, 120, 121, 200, 10000}

Symbolicate ==
    /\ stage = "ready"
    /\ \E off \in SymOffsets, b \in {base, interpBase} :
         call' = [op |-> "Symbolicate", pc |-> Add64(b, off),
                  ret |-> SymbolicateAddr(Add64(b, off))]
    /\ UNCHANGED <<loadVars, traceVars, kernelVars, interpPath, runVars, memVars>>

\* ------------------------------------------------------- tracing hooks
PCs == {Add64(entry, i) : i \in 0..(MaxPC - 1)}
\* a value of the whole register file; 0 is all registers zero, which the guest's
\* never is once mapStack has set the stack pointer
RegValues == 1..MaxReg

\* checkTraceMatch: a block matches when TraceMatch is empty, when its address
\* or symbol matches a pattern (TraceMatch holds the addresses that do), or when
\* one of the newest TraceMatchDepth stack frames does (frameMatch)
checkTraceMatch(addr, frameMatch) ==
    \/ TraceMatch = {}
    \/ addr \in TraceMatch
    \/ TraceMatchDepth > 0 /\ frameMatch

\* StatusDiff.Changes().Count() > 0: a register differs from the snapshot
Changed == status # regs

Count(n) == IF n < RunCap THEN n + 1 ELSE RunCap

\* ---------------------------------------------------------------- mapStack
\* mapStack: the stack is allocated at or above STACK_BASE, SP is set to its
\* end and one PROT_NONE page is mapped there; regOk is whether RegWrite works
mapStack_noGuard(mem, regOk) ==
    LET r == Mmap(mem, STACK_BASE, STACK_SIZE)
        stackEnd == Add64(r.addr, STACK_SIZE)
    IN  IF r.err
        THEN [err |-> TRUE, mem |-> mem, StackBase |-> StackBase, SP |-> SP]
        ELSE IF ~regOk
        THEN [err |-> TRUE, mem |-> r.mem, StackBase |-> r.addr, SP |-> SP]
        ELSE [err |-> FALSE, mem |-> r.mem, StackBase |-> r.addr,
              SP |-> stackEnd]

mapStack(mem, regOk) ==
    LET r == Mmap(mem, STACK_BASE, STACK_SIZE)
        stackEnd == Add64(r.addr, STACK_SIZE)
        g == MemMapProt(r.mem, stackEnd, UC_MEM_ALIGN, PROT_NONE)
    IN  IF r.err
        THEN [err |-> TRUE, mem |-> mem, StackBase |-> StackBase, SP |-> SP]
        ELSE IF ~regOk
        THEN [err |-> TRUE, mem |-> r.mem, StackBase |-> r.addr, SP |-> SP]
        ELSE [err |-> g.err, mem |-> g.mem, StackBase |-> r.addr,
              SP |-> stackEnd]

NoResult == [returned |-> FALSE, err |-> "nil", status |-> 0]

\* the hook kinds addHooks asks the engine for
HooksAsked ==
    (IF TraceExec \/ TraceReg THEN {"block"} ELSE {})
    \cup (IF TraceExec THEN {"code"} ELSE {})
    \cup (IF TraceMem \/ TraceMemBatch THEN {"mem"} ELSE {})
    \cup {"invalid", "intr"}

\* addHooks: every HookAdd result is dropped and nil is returned
addHooks == [err |-> FALSE, hooks |-> HooksAsked \ {hookAddErr}]

\* Run up to Unicorn.Start: hooks, mapStack, the OS initializer (initOk: it
\* returned no error), then the registers are printed, which takes the first
\* snapshot, only when Verbose or TraceReg; a failure returns before Start
Run ==
    /\ stage = "ready"
    /\ engine = "idle"
    /\ ~runResult.returned
    /\ \E regOk \in BOOLEAN, initOk \in BOOLEAN :
       \E hk \in {addHooks} :
       \E st \in {IF hk.err
                  THEN [err |-> TRUE, mem |-> memory, StackBase |-> StackBase,
                        SP |-> SP]
                  ELSE mapStack(memory, regOk)} :
         /\ hooks' = hk.hooks
         /\ memory' = st.mem
         /\ StackBase' = st.StackBase
         /\ SP' = st.SP
         /\ runSteps' = IF hk.err THEN <<"addHooks">>
                        ELSE IF st.err THEN <<"addHooks", "mapStack">>
                        ELSE IF ~initOk THEN <<"addHooks", "mapStack", "osInit">>
                        ELSE <<"addHooks", "mapStack", "osInit", "Start">>
         /\ IF st.err \/ ~initOk
            THEN /\ runResult' = [returned |-> TRUE, err |-> "setup",
                                  status |-> 0]
                 /\ UNCHANGED <<status, engine, curPC, due>>
            ELSE /\ status' = IF Verbose \/ TraceReg THEN regs ELSE status
                 /\ engine' = "running"
                 /\ curPC' = entry
                 /\ due' = "block"
                 /\ UNCHANGED runResult
    /\ UNCHANGED <<Verbose, TraceExec, TraceReg, TraceMatch, TraceMatchDepth,
                   traceMatching, lastCode, deadlock, regs, fatal,
                   obsPC, obsDirty, obsRun, execPC, execDirty, execRun>>
    /\ UNCHANGED <<loader, interpFile, ForceBase, ForceInterpBase, facade,
                   stage, base, interpBase, entry, binEntry, brk, merged,
                   brkCalls, lastBrk, mapCalls>>
    /\ UNCHANGED <<kernelVars, interpPath, call, exitStatus, lastFault,
                   hookAddErr, memVars>>

\* the engine enters a basic block at curPC: the HOOK_BLOCK callback, installed
\* when TraceExec or TraceReg; a matching block flushes the pending batch.
\* Without the callback the stacktrace stays empty and no frame can match.
HookBlock ==
    /\ engine = "running"
    /\ due = "block"
    /\ due' = "code"
    /\ \E frameMatch \in IF "block" \in hooks THEN BOOLEAN ELSE {FALSE} :
         /\ blockMatches' = checkTraceMatch(curPC, frameMatch)
         /\ IF "block" \in hooks
            THEN IF ~checkTraceMatch(curPC, frameMatch)
                 THEN traceMatching' = FALSE /\ UNCHANGED <<status, memlog>>
                 ELSE /\ traceMatching' = TRUE
                      /\ memlog' = IF TraceMemBatch THEN <<>> ELSE memlog
                      /\ status' = IF ~TraceExec /\ TraceReg /\ deadlock = 0
                                   THEN regs ELSE status
            ELSE UNCHANGED <<traceMatching, status, memlog>>
    /\ UNCHANGED <<Verbose, TraceExec, TraceReg, TraceMatch, TraceMatchDepth,
                   lastCode, deadlock, engine, regs, curPC, fatal,
                   obsPC, obsDirty, obsRun, execPC, execDirty, execRun>>
    /\ UNCHANGED <<loadVars, kernelVars, interpPath, call, runVars,
                   TraceMem, TraceMemBatch, lastOut>>

\* the deadlock counter after one code-hook call: same is addr == lastCode,
\* changed is changes.Count() > 0
deadlockAfter(same, changed, d) ==
    IF same THEN (IF changed THEN 0 ELSE d + 1) ELSE 0

NoOut == [kind |-> "none", matched |-> TRUE, adjacent |-> TRUE,
          flushed |-> FALSE]

\* the engine is about to execute the instruction at curPC: the HOOK_CODE
\* callback, installed when TraceExec; past the gate it prints the instruction
HookCode ==
    /\ engine = "running"
    /\ due = "code"
    /\ due' = "exec"
    /\ execPC' = curPC
    /\ execDirty' = FALSE
    /\ execRun' = IF curPC = execPC /\ ~execDirty THEN Count(execRun) ELSE 1
    /\ IF "code" \in hooks /\ traceMatching
       THEN /\ obsPC' = curPC
            /\ obsDirty' = FALSE
            /\ obsRun' = IF curPC = obsPC /\ ~obsDirty THEN Count(obsRun) ELSE 1
            /\ status' = IF curPC = lastCode \/ (TraceReg /\ TraceExec)
                         THEN regs ELSE status
            /\ deadlock' = deadlockAfter(curPC = lastCode, Changed, deadlock)
            /\ fatal' = (deadlock' > 2)
            /\ engine' = IF deadlock' > 2 THEN "stopped" ELSE engine
            /\ lastCode' = curPC
            /\ lastOut' = [NoOut EXCEPT !.kind = "code",
                                        !.matched = blockMatches]
       ELSE UNCHANGED <<obsPC, obsDirty, obsRun, status, deadlock, fatal,
                        engine, lastCode, lastOut>>
    /\ UNCHANGED <<Verbose, TraceExec, TraceReg, TraceMatch, TraceMatchDepth,
                   traceMatching, regs, curPC>>
    /\ UNCHANGED <<loadVars, kernelVars, interpPath, call, runVars,
                   TraceMem, TraceMemBatch, memlog, blockMatches>>

\* the guest instruction at curPC executes: it may change registers, and the
\* next instruction is at any address, in this block or at the head of another
Exec ==
    /\ engine = "running"
    /\ due = "exec"
    /\ \E r \in RegValues, next \in PCs, d \in {"block", "code"} :
         /\ regs' = r
         /\ curPC' = next
         /\ due' = d
         /\ obsDirty' = (obsDirty \/ r # regs)
         /\ execDirty' = (execDirty \/ r # regs)
    /\ UNCHANGED <<Verbose, TraceExec, TraceReg, TraceMatch, TraceMatchDepth,
                   traceMatching, lastCode, deadlock, status, engine, fatal,
                   obsPC, obsRun, execPC, execRun>>
    /\ UNCHANGED <<loadVars, kernelVars, interpPath, call, runVars, memVars>>

\* ------------------------------------------------------------ memory hooks
\* the engine's check of an access against the mappings' protection
Allowed(mem, addr, need) ==
    \E m \in mem : m.start <= addr /\ addr < m.end /\ BitAnd(m.prot, need) = need

NeededProt(access) ==
    CASE access = "read" -> PROT_READ
      [] access = "write" -> PROT_WRITE
      [] access = "fetch" -> PROT_EXEC

\* MemLog.Adjacent: same direction, and the address abuts the previous range;
\* nothing is pending in an empty batch
Adjacent(log, a) ==
    \/ log = <<>>
    \/ /\ log[Len(log)].write = a.write
       /\ a.addr = log[Len(log)].addr + log[Len(log)].size

\* whether the memory hook prints and resets the batch before the update
memHookFlushes_never(adjacent) == FALSE

memHookFlushes(adjacent) == ~(TraceExec \/ TraceReg) /\ ~adjacent

\* the guest's data accesses: 4 bytes at the start of the data segment and
\* the 4 bytes next to them
DataAccesses == [addr : {4202496, 4202500}, size : {4}, write : BOOLEAN]

\* the instruction at hand reads or writes mapped memory: the HOOK_MEM_READ |
\* HOOK_MEM_WRITE callback, installed when TraceMem or TraceMemBatch
MemAccess ==
    /\ engine = "running"
    /\ due = "exec"
    /\ \E a \in DataAccesses :
         /\ Allowed(memory, a.addr, NeededProt(IF a.write THEN "write" ELSE "read"))
         /\ IF "mem" \in hooks /\ traceMatching
            THEN LET adjacent == Adjacent(memlog, a)
                     flush == TraceMemBatch /\ memHookFlushes(adjacent)
                     pending == IF flush THEN <<>> ELSE memlog
                 IN  /\ lastOut' = [kind |-> "mem", matched |-> blockMatches,
                                    adjacent |-> adjacent,
                                    flushed |-> flush /\ memlog # <<>>]
                     /\ IF TraceMemBatch
                        THEN /\ Len(pending) < MaxBatch
                             /\ memlog' = Append(pending, a)
                        ELSE UNCHANGED memlog
            ELSE UNCHANGED <<lastOut, memlog>>
    /\ UNCHANGED <<loadVars, traceVars, kernelVars, interpPath, call, runVars,
                   TraceMem, TraceMemBatch, blockMatches>>

\* the invalid-memory hook's return value: false, the access is not handled
invalidHook_handles(access) == TRUE

invalidHook(access) == FALSE

\* the first and last byte of the page behind the stack, and an unmapped page
FaultAddrs == {Add64(StackBase, STACK_SIZE),
               Add64(StackBase, STACK_SIZE + UC_MEM_ALIGN - 1), 64}

\* the instruction at hand reads, writes or jumps to memory that is unmapped or
\* protected: the invalid-memory hook; unhandled, Start returns an error
InvalidAccess ==
    /\ engine = "running"
    /\ due = "exec"
    /\ \E addr \in FaultAddrs, access \in {"read", "write", "fetch"} :
         /\ ~Allowed(memory, addr, NeededProt(access))
         /\ lastFault' = [access |-> access, addr |-> addr]
         /\ engine' = IF "invalid" \in hooks /\ invalidHook(access)
                      THEN engine ELSE "faulted"
    /\ UNCHANGED <<Verbose, TraceExec, TraceReg, TraceMatch, TraceMatchDepth,
                   traceMatching, lastCode, deadlock, status, regs, curPC, due,
                   fatal, obsPC, obsDirty, obsRun, execPC, execDirty, execRun>>
    /\ UNCHANGED <<loadVars, kernelVars, interpPath, call, StackBase, SP,
                   exitStatus, runResult, hookAddErr, hooks, runSteps,
                   memVars>>

\* -------------------------------------------------------------------- Exit
NoExit == [nil |-> TRUE, status |-> 0]
ExitStatuses == {0, 7}

\* the instruction at hand is the guest's exit syscall: Usercorn.Exit(status)
ExitCall ==
    /\ engine = "running"
    /\ due = "exec"
    /\ \E st \in ExitStatuses :
         /\ exitStatus' = [nil |-> FALSE, status |-> st]
         /\ call' = [op |-> "Exit", status |-> st]
    /\ engine' = "stopped"
    /\ UNCHANGED <<Verbose, TraceExec, TraceReg, TraceMatch, TraceMatchDepth,
                   traceMatching, lastCode, deadlock, status, regs, curPC, due,
                   fatal, obsPC, obsDirty, obsRun, execPC, execDirty, execRun>>
    /\ UNCHANGED <<loadVars, kernelVars, interpPath, StackBase, SP, runResult,
                   lastFault, hookAddErr, hooks, runSteps, memVars>>

\* what Run returns once Start has returned startErr
runError_engineOnly(startErr, exitSt) ==
    [returned |-> TRUE, err |-> IF startErr THEN "engine" ELSE "nil",
     status |-> 0]

runError(startErr, exitSt) ==
    IF ~startErr /\ ~exitSt.nil
    THEN [returned |-> TRUE, err |-> "exit", status |-> exitSt.status]
    ELSE [returned |-> TRUE, err |-> IF startErr THEN "engine" ELSE "nil",
          status |-> 0]

\* Run after Unicorn.Start returned: the pending batch is flushed, an engine
\* error prints the register changes, and a recorded exit status is the result
RunReturn ==
    /\ engine \in {"stopped", "faulted"}
    /\ ~runResult.returned
    /\ memlog' = IF TraceMemBatch THEN <<>> ELSE memlog
    /\ status' = IF engine = "faulted" THEN regs ELSE status
    /\ runResult' = runError(engine = "faulted", exitStatus)
    /\ UNCHANGED <<Verbose, TraceExec, TraceReg, TraceMatch, TraceMatchDepth,
                   traceMatching, lastCode, deadlock, engine, regs, curPC, due,
                   fatal, obsPC, obsDirty, obsRun, execPC, execDirty, execRun>>
    /\ UNCHANGED <<loadVars, kernelVars, interpPath, call, StackBase, SP,
                   exitStatus, lastFault, hookAddErr, hooks, runSteps,
                   TraceMem, TraceMemBatch, blockMatches, lastOut>>

\* ---------------------------------------------------------------- inputs
AddrChoices == {0, 2048, 8192}
SizeChoices == {2048, 8192}
ProtChoices == {PROT_READ, PROT_WRITE, PROT_READ + PROT_EXEC}
SegChoices == [Addr : AddrChoices, Size : SizeChoices, Prot : ProtChoices]
SegLists(n) == UNION {[1..k -> SegChoices] : k \in 0..n}

\* text and data segments only
DataSegChoices == {s \in SegChoices : s.Prot # PROT_READ}
DataSegLists(n) == UNION {[1..k -> DataSegChoices] : k \in 0..n}

EntryChoices == {0, 16}
ForceBaseChoices == {0, 4194304}
ForceInterpBaseChoices == {0, 8388608}

\* the paths an image's Interp() names
LibLd == <<"/", "lib", "ld.so">>
LibexecLd == <<"/", "libexec", "ld-elf.so.1">>

\* the files an image's Interp() can name: a position-independent dynamic linker
\* and a fixed-address one
InterpChoices ==
    {[Type |-> "DYN", Entry |-> 32, Interp |-> NoPath, Arch |-> "x86",
      Segments |-> <<[Addr |-> 0, Size |-> 8192, Prot |-> PROT_READ + PROT_EXEC],
                     [Addr |-> 8192, Size |-> 2048, Prot |-> PROT_WRITE]>>],
     [Type |-> "EXEC", Entry |-> 8224, Interp |-> NoPath, Arch |-> "x86",
      Segments |-> <<[Addr |-> 8192, Size |-> 2048,
                      Prot |-> PROT_READ + PROT_WRITE]>>]}

\* no file: the image names no interpreter, or the file it names cannot be loaded
NoInterp == NoFile

InitFields ==
    /\ stage = "new"
    /\ memory = {}
    /\ base = 0 /\ interpBase = 0 /\ entry = 0 /\ binEntry = 0 /\ brk = 0
    /\ merged = <<>>
    /\ brkCalls = 0
    /\ lastBrk = NoBrk
    /\ interpPath = NoPath
    /\ mapCalls = 0
    /\ call = NoCall
    /\ StackBase = 0
    /\ SP = 0
    /\ exitStatus = NoExit
    /\ runResult = NoResult
    /\ lastFault = [access |-> "none", addr |-> 0]
    /\ hooks = {}
    /\ runSteps = <<>>
    /\ memlog = <<>>
    /\ blockMatches = TRUE
    /\ lastOut = NoOut

\* the hooks' fields as NewUsercorn leaves them, the engine not started
InitHookFields ==
    /\ traceMatching = TRUE
    /\ lastCode = 0
    /\ deadlock = 0
    /\ engine = "idle"
    /\ curPC = 0
    /\ due = "block"
    /\ fatal = FALSE
    /\ obsPC = 0 /\ obsDirty = FALSE /\ obsRun = 0
    /\ execPC = 0 /\ execDirty = FALSE /\ execRun = 0

\* the same, on an engine that refuses no HookAdd
InitHooks == InitHookFields /\ hookAddErr = "none"

\* a POSIX kernel with both syscalls; no prefix, no symbols
PosixKernel == [n \in SysNames |-> [nil |-> FALSE, In |-> 3, ret |-> 7]]

InitNoKernel ==
    /\ LoadPrefix = NoPath
    /\ hostStat = "ENOENT"
    /\ kernels = <<PosixKernel>>
    /\ symbols = <<>>
    /\ interpSymbols = <<>>
    /\ wd = <<"/">>

\* no tracing: the loader specifications never start the engine
InitNoTrace ==
    /\ Verbose = FALSE /\ TraceExec = FALSE /\ TraceReg = FALSE
    /\ TraceMem = FALSE /\ TraceMemBatch = FALSE
    /\ TraceMatch = {} /\ TraceMatchDepth = 0
    /\ status = 0 /\ regs = 1
    /\ InitHooks

\* ------------------------------------------------- the loader specification
\* NewUsercorn on every image: with and without an interpreter and overrides
Init ==
    /\ loader \in [Type : {"EXEC", "DYN"}, Segments : DataSegLists(MaxLoadSegs),
                   Entry : EntryChoices, Interp : {NoPath, LibLd},
                   Arch : {"x86"}]
    /\ interpFile \in IF loader.Interp = NoPath THEN {NoInterp} ELSE InterpChoices
    /\ ForceBase \in ForceBaseChoices
    /\ ForceInterpBase \in IF loader.Interp = NoPath THEN {0} ELSE ForceInterpBaseChoices
    /\ facade = "strict"
    /\ InitFields
    /\ InitNoTrace
    /\ InitNoKernel

Next == NewUsercorn

Spec == Init /\ [][Next]_vars

\* -------------------------------------------------- the merge specification
\* NewUsercorn on images of up to MaxSegs segments, for the merge loop
InitMerge ==
    /\ loader \in [Type : {"EXEC", "DYN"}, Segments : SegLists(MaxSegs),
                   Entry : {16}, Interp : {NoPath},
                   Arch : {"x86"}]
    /\ interpFile = NoInterp
    /\ ForceBase = 0
    /\ ForceInterpBase = 0
    /\ facade = "strict"
    /\ InitFields
    /\ InitNoTrace
    /\ InitNoKernel

NextMerge == NewUsercorn

SpecMerge == InitMerge /\ [][NextMerge]_vars

\* ---------------------------------------------------- the brk specification
\* NewUsercorn, then the guest's brk syscalls, under either facade
InitBrk ==
    /\ loader \in [Type : {"EXEC", "DYN"}, Segments : DataSegLists(MaxLoadSegs),
                   Entry : {16}, Interp : {NoPath},
                   Arch : {"x86"}]
    /\ interpFile = NoInterp
    /\ ForceBase = 0
    /\ ForceInterpBase = 0
    /\ facade \in {"strict", "round"}
    /\ InitFields
    /\ InitNoTrace
    /\ InitNoKernel

NextBrk == NewUsercorn \/ BrkCall

SpecBrk == InitBrk /\ [][NextBrk]_vars

\* -------------------------------------------------- the trace specification
\* a static image is loaded and run under every tracing configuration
HelloImage ==
    [Type |-> "EXEC", Entry |-> 4194320, Interp |-> NoPath, Arch |-> "x86",
     Segments |-> <<[Addr |-> 4194304, Size |-> 8192,
                     Prot |-> PROT_READ + PROT_EXEC],
                    [Addr |-> 4202496, Size |-> 2048,
                     Prot |-> PROT_READ + PROT_WRITE]>>]

InitTrace ==
    /\ loader = HelloImage
    /\ interpFile = NoInterp
    /\ ForceBase = 0
    /\ ForceInterpBase = 0
    /\ facade = "strict"
    /\ InitFields
    /\ Verbose \in BOOLEAN
    /\ TraceExec \in BOOLEAN
    /\ TraceReg \in BOOLEAN
    /\ TraceMatch \in {{}, {4194320}}
    /\ TraceMatchDepth \in {0, 1}
    /\ TraceMem = FALSE
    /\ TraceMemBatch = FALSE
    /\ status = 0
    /\ regs \in RegValues
    /\ InitHooks
    /\ InitNoKernel

NextTrace == NewUsercorn \/ Run \/ HookBlock \/ HookCode \/ Exec

SpecTrace == InitTrace /\ [][NextTrace]_vars

\* ------------------------------------------- the memory-trace specification
\* the static image run with the block and code hooks on or off, and either
\* the per-access memory trace under every TraceMatch setting or the batched
\* memory trace with tracing everywhere
InitMem ==
    /\ loader = HelloImage
    /\ interpFile = NoInterp
    /\ ForceBase = 0
    /\ ForceInterpBase = 0
    /\ facade = "strict"
    /\ InitFields
    /\ Verbose = FALSE
    /\ TraceExec \in BOOLEAN
    /\ TraceReg \in BOOLEAN
    /\ \/ /\ TraceMem = TRUE
          /\ TraceMemBatch = FALSE
          /\ TraceMatch \in {{}, {4194320}}
          /\ TraceMatchDepth \in {0, 1}
       \/ /\ TraceMem = FALSE
          /\ TraceMemBatch = TRUE
          /\ TraceMatch = {}
          /\ TraceMatchDepth = 0
    /\ status = 0
    /\ regs = 1
    /\ InitHooks
    /\ InitNoKernel

NextMem ==
    NewUsercorn \/ Run \/ HookBlock \/ HookCode \/ Exec \/ MemAccess
    \/ RunReturn

SpecMem == InitMem /\ [][NextMem]_vars

\* --------------------------------------------------- the run specification
\* images with nothing, with a segment, and with the start of a segment
\* behind the default stack; the guest runs, faults, exits, or is stopped
\* for a deadlock when TraceExec is on
StackEndSegment(addr) ==
    [Addr |-> addr, Size |-> 2048, Prot |-> PROT_READ + PROT_WRITE]

RunImages ==
    {HelloImage,
     [HelloImage EXCEPT !.Segments =
         Append(@, StackEndSegment(STACK_BASE + STACK_SIZE))],
     [HelloImage EXCEPT !.Segments = Append(@, StackEndSegment(STACK_BASE))]}

InitRun ==
    /\ loader \in RunImages
    /\ interpFile = NoInterp
    /\ ForceBase = 0
    /\ ForceInterpBase = 0
    /\ facade = "strict"
    /\ InitFields
    /\ Verbose = FALSE
    /\ TraceExec \in BOOLEAN
    /\ TraceReg = FALSE
    /\ TraceMem \in BOOLEAN
    /\ TraceMemBatch = FALSE
    /\ TraceMatch = {}
    /\ TraceMatchDepth = 0
    /\ status = 0
    /\ regs = 1
    /\ InitHooks
    /\ InitNoKernel

NextRun ==
    NewUsercorn \/ Run \/ HookBlock \/ HookCode \/ Exec \/ MemAccess
    \/ InvalidAccess \/ ExitCall \/ RunReturn

SpecRun == InitRun /\ [][NextRun]_vars

\* ------------------------------------------- the interpreter specification
\* the files an Interp() path can name: none that loads, or a dynamic linker of
\* either architecture that may name an interpreter of its own
Archs == {"x86", "arm"}

InterpImages ==
    {NoFile} \cup {[f EXCEPT !.Interp = i, !.Arch = a] :
                      f \in InterpChoices, i \in {NoPath, LibLd}, a \in Archs}

InitInterp ==
    /\ loader \in [Type : {"EXEC", "DYN"}, Segments : DataSegLists(1),
                   Entry : {16}, Interp : {NoPath, LibLd}, Arch : Archs]
    /\ interpFile \in IF loader.Interp = NoPath THEN {NoInterp}
                      ELSE InterpImages
    /\ ForceBase = 0
    /\ ForceInterpBase \in IF loader.Interp = NoPath THEN {0}
                           ELSE ForceInterpBaseChoices
    /\ facade = "strict"
    /\ InitFields
    /\ InitNoTrace
    /\ InitNoKernel

NextInterp == NewUsercorn

SpecInterp == InitInterp /\ [][NextInterp]_vars

\* ------------------------------------------------- the start-up specification
\* the run specification on engines that refuse one kind of hook, or none
HookAddErrs == {"none", "block", "code", "mem", "invalid"}

InitStart ==
    /\ loader \in RunImages
    /\ interpFile = NoInterp
    /\ ForceBase = 0
    /\ ForceInterpBase = 0
    /\ facade = "strict"
    /\ InitFields
    /\ Verbose = FALSE
    /\ TraceExec \in BOOLEAN
    /\ TraceReg = FALSE
    /\ TraceMem \in BOOLEAN
    /\ TraceMemBatch = FALSE
    /\ TraceMatch = {}
    /\ TraceMatchDepth = 0
    /\ status = 0
    /\ regs = 1
    /\ InitHookFields
    /\ hookAddErr \in HookAddErrs
    /\ InitNoKernel

NextStart ==
    NewUsercorn \/ Run \/ HookBlock \/ HookCode \/ Exec \/ MemAccess
    \/ InvalidAccess \/ ExitCall \/ RunReturn

SpecStart == InitStart /\ [][NextStart]_vars

\* ------------------------------------------------- the syscall specification
\* every kernel list of up to MaxKernels kernels, every syscall name
SysChoices == [nil : {FALSE}, In : {1, 3}, ret : {7, 9}]
KernelChoices == [SysNames -> {NilSys} \cup SysChoices]
KernelLists(n) == UNION {[1..k -> KernelChoices] : k \in 0..n}

InitSyscall ==
    /\ loader = HelloImage
    /\ interpFile = NoInterp
    /\ ForceBase = 0
    /\ ForceInterpBase = 0
    /\ facade = "strict"
    /\ InitFields
    /\ InitNoTrace
    /\ LoadPrefix = NoPath
    /\ hostStat = "ENOENT"
    /\ kernels \in KernelLists(MaxKernels)
    /\ symbols = <<>>
    /\ interpSymbols = <<>>
    /\ wd = <<"/">>

NextSyscall == NewUsercorn \/ Syscall

SpecSyscall == InitSyscall /\ [][NextSyscall]_vars

\* -------------------------------------------- the path sandbox specification
\* images with every kind of interpreter path, with and without a prefix, and
\* the guest's Open, Stat and Getcwd calls
PrefixChoices == {NoPath, <<"/", "root">>}
WdChoices == {<<"/">>, <<"/", "t", "m", "p">>}

InitPath ==
    /\ loader \in {[HelloImage EXCEPT !.Interp = p] : p \in {NoPath, LibLd, LibexecLd}}
    /\ interpFile \in IF loader.Interp = NoPath THEN {NoInterp} ELSE InterpChoices
    /\ ForceBase = 0
    /\ ForceInterpBase = 0
    /\ facade = "strict"
    /\ InitFields
    /\ InitNoTrace
    /\ LoadPrefix \in PrefixChoices
    /\ hostStat \in StatErrors
    /\ kernels = <<PosixKernel>>
    /\ symbols = <<>>
    /\ interpSymbols = <<>>
    /\ wd \in WdChoices

NextPath == NewUsercorn \/ Open \/ Stat \/ PrefixPathCall \/ Getcwd

SpecPath == InitPath /\ [][NextPath]_vars

\* --------------------------------------------- the symbolication specification
\* images with and without an interpreter, every list of up to MaxSyms symbols
SymbolChoices ==
    {[Name |-> "f", Start |-> 100, End |-> 120],
     [Name |-> "g", Start |-> 200, End |-> 0],
     [Name |-> "", Start |-> 110, End |-> 0],
     [Name |-> "h", Start |-> 0, End |-> 0],
     [Name |-> "k", Start |-> 100, End |-> 300],
     [Name |-> "m", Start |-> 8292, End |-> 0]}
InterpSymbolChoices ==
    {[Name |-> "i", Start |-> 100, End |-> 0],
     [Name |-> "j", Start |-> 110, End |-> 130]}
SymLists(S, n) == UNION {[1..k -> S] : k \in 0..n}

InitSym ==
    /\ loader \in [Type : {"EXEC", "DYN"},
                   Segments : {<<[Addr |-> 0, Size |-> 8192,
                                  Prot |-> PROT_READ + PROT_WRITE]>>},
                   Entry : {16}, Interp : {NoPath, LibLd},
                   Arch : {"x86"}]
    /\ interpFile \in IF loader.Interp = NoPath THEN {NoInterp}
                       ELSE {f \in InterpChoices : f.Type = "DYN"}
    /\ ForceBase \in ForceBaseChoices
    /\ ForceInterpBase = 0
    /\ facade = "strict"
    /\ InitFields
    /\ InitNoTrace
    /\ LoadPrefix = NoPath
    /\ hostStat = "ENOENT"
    /\ kernels = <<PosixKernel>>
    /\ symbols \in SymLists(SymbolChoices, MaxSyms)
    /\ interpSymbols \in IF loader.Interp = NoPath THEN {<<>>}
                          ELSE SymLists(InterpSymbolChoices, 1)
    /\ wd = <<"/">>

NextSym == NewUsercorn \/ Symbolicate

SpecSym == InitSym /\ [][NextSym]_vars

\* ================================================================ claims
\* ------------------------------------------------------------ merge loop
Loaded == stage # "new"

SpanOf(seg) ==
    [Start |-> PageDown(seg.Addr), End |-> PageUp(seg.Addr + seg.Size)]

PagesOf(start, end) == {p \in 0..(end \div PageSize) : start <= p * PageSize
                                                        /\ p * PageSize < end}

Disjoint(a, b) == a.End <= b.Start \/ b.End <= a.Start

\* C1: after the merge loop of mapBinary, whatever the raw segment list, no two
\* merged segments overlap and every merged segment starts and ends on a page
\* boundary (a multiple of 4096).
C1_MergedDisjointAligned ==
    Loaded =>
        /\ \A i, j \in 1..Len(merged) : i # j => Disjoint(merged[i], merged[j])
        /\ \A i \in 1..Len(merged) :
             merged[i].Start % 4096 = 0 /\ merged[i].End % 4096 = 0

\* the merged span that raw segment k is folded into: the first span, among
\* those built from the segments before k, that k's page-aligned span overlaps,
\* else a new span at the end of the list
Owner(segments, k) ==
    LET prev == mergeSegments(SubSeq(segments, 1, k - 1))
        me == SpanOf(segments[k])
        hit == {j \in 1..Len(prev) : ~Disjoint(prev[j], me)}
    IN  IF hit = {} THEN Len(prev) + 1 ELSE Min(hit)

OrAll(S) ==
    LET has(k) == IF \E x \in S : Bit(x, k) = 1 THEN k ELSE 0
    IN  has(1) + has(2) + has(4)

\* C2: merging preserves coverage and loosens permissions: the pages covered by
\* the merged spans are exactly the pages covered by the page-aligned raw
\* segments, and every merged span has the hull and the OR of the protections
\* of exactly the raw segments that were folded into it.
C2_CoverageAndProt ==
    Loaded =>
        LET segs == loader.Segments
            own == [k \in 1..Len(segs) |-> Owner(segs, k)]
            members(j) == {k \in 1..Len(segs) : own[k] = j}
        IN  /\ UNION {PagesOf(merged[j].Start, merged[j].End) : j \in 1..Len(merged)}
               = UNION {PagesOf(SpanOf(segs[k]).Start, SpanOf(segs[k]).End) :
                        k \in 1..Len(segs)}
            /\ {own[k] : k \in 1..Len(segs)} = 1..Len(merged)
            /\ \A j \in 1..Len(merged) :
                 /\ merged[j].Prot = OrAll({segs[k].Prot : k \in members(j)})
                 /\ merged[j].Start = Min({SpanOf(segs[k]).Start : k \in members(j)})
                 /\ merged[j].End = Max({SpanOf(segs[k]).End : k \in members(j)})

\* [0, 0x2000) R and [0x800, 0x2800) W became the one span [0, 0x3000) R|W
C2_Witness ==
    /\ Loaded
    /\ Len(loader.Segments) = 2
    /\ loader.Segments[1] = [Addr |-> 0, Size |-> 8192, Prot |-> 1]
    /\ loader.Segments[2] = [Addr |-> 2048, Size |-> 8192, Prot |-> 2]
    /\ merged = <<[Start |-> 0, End |-> 12288, Prot |-> 3]>>

SpansAsSegments(mrg) ==
    [i \in 1..Len(mrg) |->
        [Addr |-> mrg[i].Start, Size |-> mrg[i].End - mrg[i].Start,
         Prot |-> mrg[i].Prot]]

Range(f) == {f[i] : i \in DOMAIN f}

\* C3: the merge is idempotent: merging the merged spans again gives the same
\* set of spans, merge(merge(S)) = merge(S).
C3_MergeIdempotent ==
    Loaded => Range(mergeSegments(SpansAsSegments(merged))) = Range(merged)

\* ------------------------------------------------------------- load bias
MappedAt(start, end) == \E m \in memory : m.start = start /\ m.end = end

\* C4: a DYN image loaded with no ForceBase override has a non-zero,
\* page-aligned base that one allocation fixed, and every merged span is mapped
\* at base + span.Start inside [base, base + totalSize), whatever the order of
\* the segments and wherever the lowest span starts.
C4_DynBaseAllocated ==
    (stage = "ready" /\ loader.Type = "DYN" /\ ForceBase = 0 /\ Len(merged) > 0) =>
        LET totalSize == Max({merged[i].End : i \in 1..Len(merged)})
        IN  /\ base # 0
            /\ base % 4096 = 0
            /\ \E m \in memory : m.how = "mmap" /\ m.start = base
            /\ \A i \in 1..Len(merged) :
                 /\ MappedAt(base + merged[i].Start, base + merged[i].End)
                 /\ base + merged[i].End <= base + totalSize

\* C5: after NewUsercorn, with an interpreter entry = interpBase + the
\* interpreter's Entry() and binEntry = base + the main image's Entry(), where
\* interpBase is the bias the interpreter's spans are mapped at; with no
\* interpreter interpBase = 0 and entry = binEntry = base + the main Entry().
C5_EntrySelection ==
    stage = "ready" =>
        IF loader.Interp # NoPath
        THEN /\ entry = (interpBase + interpFile.Entry) % Word
             /\ binEntry = (base + loader.Entry) % Word
             /\ \A s \in Range(mergeSegments(interpFile.Segments)) :
                  MappedAt(interpBase + s.Start, interpBase + s.End)
        ELSE /\ interpBase = 0
             /\ entry = binEntry
             /\ binEntry = (base + loader.Entry) % Word

\* an image with an interpreter is loaded: both biases and both entries differ
C5_Witness ==
    /\ stage = "ready"
    /\ loader.Interp # NoPath
    /\ interpBase # 0
    /\ base # interpBase
    /\ entry # binEntry
    /\ loader.Entry # 0

\* -------------------------------------------------------------------- brk
Writable(seg) == (seg.Prot \div 2) % 2 = 1

\* C6: when NewUsercorn has returned, brk is page-aligned and is the
\* page-aligned-up value of base + Addr + Size of the highest writable segment.
C6_BrkSeeded ==
    (stage = "ready" /\ brkCalls = 0) =>
        LET tops == {base + loader.Segments[i].Addr + loader.Segments[i].Size :
                       i \in {k \in 1..Len(loader.Segments) :
                                Writable(loader.Segments[k])}}
        IN  tops # {} =>
              /\ brk % 4096 = 0
              /\ brk = ((Max(tops) + 4095) \div 4096) * 4096

CoveredRW(mem, from, to) ==
    \A p \in PagesOf(PageDown(from), to) :
        \E m \in mem : /\ m.start <= p * PageSize /\ p * PageSize < m.end
                       /\ m.prot = 3

\* C7: a call Brk(a) with a >= brk leaves brk = a and returns a, with the region
\* from the old brk to a mapped R|W; a call Brk(0) returns the current brk and
\* changes neither brk nor any mapping.  Stated for the facade that rounds a
\* request to pages, which refuses fewer requests than the strict one.
C7_BrkGrows ==
    (brkCalls > 0 /\ facade = "round") =>
        /\ lastBrk.arg >= lastBrk.before =>
             /\ brk = lastBrk.arg
             /\ lastBrk.ret = lastBrk.arg
             /\ CoveredRW(memory, lastBrk.before, lastBrk.arg)
        /\ lastBrk.arg = 0 =>
             /\ lastBrk.ret = lastBrk.before
             /\ brk = lastBrk.before
             /\ memory = lastBrk.memBefore

C9_FatalOnFourthObservation ==
    (TraceExec /\ obsRun >= 4) => (fatal /\ engine = "stopped")

\* C10: the FATAL deadlock line is printed only when the guest executed the
\* instruction at one address more than 2 times in a row with no register
\* change, the observation that prints it being the next one at that address;
\* an instruction at another address in between, traced or not, starts the
\* count again.  Stated for TraceReg on, where the register deltas are taken at
\* every traced instruction.
C10_NoFalseDeadlock ==
    (fatal /\ TraceReg) => execRun >= 4

\* ------------------------------------------------------- span protection
\* C20: every merged span of a loaded image is mapped at base + span.Start with
\* exactly its own protection (the OR of its constituents), all permissions
\* standing in only for a protection of 0; for EXEC and DYN images alike,
\* the span of a DYN image that starts at offset 0 included.
C20_SpanProtection ==
    stage = "ready" =>
        \A i \in 1..Len(merged) :
            \E m \in memory :
                /\ m.start = (base + merged[i].Start) % Word
                /\ m.end = (base + merged[i].End) % Word
                /\ m.prot = IF merged[i].Prot = 0 THEN PROT_ALL ELSE merged[i].Prot

\* -------------------------------------------------------- syscall dispatch
Implementers(name) ==
    {i \in 1..Len(kernels) : name \in SysNames /\ ~kernels[i][name].nil}

RefCandidates(syms, off) ==
    {i \in 1..Len(syms) : /\ syms[i].Start # 0
                          /\ syms[i].Name # ""
                          /\ syms[i].Start <= off
                          /\ (off <= syms[i].End \/ syms[i].End = 0)}

RefNearest(syms, off) ==
    {i \in RefCandidates(syms, off) :
        \A j \in RefCandidates(syms, off) : syms[i].Start >= syms[j].Start}

RefString(name, dist) ==
    IF dist = 0 THEN <<name>> ELSE <<name, "+0x">> \o Hex(dist)

\* the strings the reference lookup allows for a PC
RefSymbolicate(pc) ==
    LET mo == pc - base
        io == pc - interpBase
        mc == RefNearest(symbols, mo)
        ic == RefNearest(interpSymbols, io)
        md == mo - symbols[CHOOSE i \in mc : TRUE].Start
        id == io - interpSymbols[CHOOSE i \in ic : TRUE].Start
    IN  IF ic # {} /\ (mc = {} \/ id < md)
        THEN {RefString(interpSymbols[i].Name, id) : i \in ic}
        ELSE IF mc # {}
        THEN {RefString(symbols[i].Name, md) : i \in mc}
        ELSE {<<>>}

ExampleSymbols ==
    /\ symbols = <<[Name |-> "f", Start |-> 100, End |-> 120],
                   [Name |-> "g", Start |-> 200, End |-> 0]>>
    /\ interpSymbols = <<>>

\* C15: Symbolicate(pc) is the reference lookup: in each image the nearest
\* symbol with Start # 0, a name and Start <= offset <= End (or End = 0), the
\* interpreter's only when strictly nearer, reported as name, name+0xN or "".
\* For symbols [{f,100,120},{g,200,0}]: base+110 is "f+0xa", base+200 is "g",
\* and base+10000, which lies in the open-ended g, is "g+0x2648".
C15_Symbolicate ==
    call.op = "Symbolicate" =>
        /\ call.ret \in RefSymbolicate(call.pc)
        /\ ExampleSymbols =>
             /\ call.pc = base + 110 => call.ret = <<"f", "+0x", "a">>
             /\ call.pc = base + 200 => call.ret = <<"g">>
             /\ call.pc = base + 10000 =>
                  call.ret = <<"g", "+0x", "2", "6", "4", "8">>

\* the example's third lookup, far behind the open-ended g
C15_Witness ==
    /\ call.op = "Symbolicate"
    /\ ExampleSymbols
    /\ base # 0
    /\ call.pc = base + 10000
    /\ call.ret = <<"g", "+0x", "2", "6", "4", "8">>

\* C15 as the specification words its examples: base+10000 gives "".
C15_ExampleAsStated ==
    (call.op = "Symbolicate" /\ ExampleSymbols) =>
        /\ call.pc = base + 110 => call.ret = <<"f", "+0x", "a">>
        /\ call.pc = base + 200 => call.ret = <<"g">>
        /\ call.pc = base + 10000 => call.ret = <<>>

\* ------------------------------------------------------------ path sandbox
\* "/lib/" occurs in the path: a component lib that neither starts a relative
\* path nor ends the path
HasLibDir(path) ==
    \E i \in 1..Len(path) : path[i] = "lib" /\ i > 1 /\ i < Len(path)

\* the path under LoadPrefix
Prefixed(path) == LoadPrefix \o SubSeq(path, 2, Len(path))

\* the interpreter lookup took place
InterpLookedUp == stage = "ready" /\ loader.Interp # NoPath

\* C16: Open and Stat rewrite a path through PrefixPath(path, false) only when
\* it contains "/lib/" and use any other path unchanged; the interpreter
\* lookup of mapBinary passes every interpreter path through
\* PrefixPath(interp, true), with or without "/lib/" in it: an absolute one is
\* looked up under LoadPrefix whenever LoadPrefix is set.
C16_LibGate ==
    /\ call.op \in {"Open", "Stat"} =>
         /\ ~HasLibDir(call.path) => call.host = call.path
         /\ call.host # call.path =>
              /\ HasLibDir(call.path)
              /\ call.host = Prefixed(call.path)
    /\ InterpLookedUp =>
         interpPath = IF LoadPrefix # NoPath THEN Prefixed(loader.Interp)
                      ELSE loader.Interp

\* an interpreter outside /lib/ was looked up under the prefix, and a guest
\* path outside /lib/ was opened as it is
C16_Witness ==
    /\ InterpLookedUp
    /\ ~HasLibDir(loader.Interp)
    /\ interpPath # loader.Interp
    /\ call.op = "Open"
    /\ IsAbs(call.path)
    /\ ~HasLibDir(call.path)
    /\ hostStat = "nil"

\* C16 as stated: a path without "/lib/" is used unchanged by Open, by Stat
\* and by the interpreter lookup.
C16_LibGateAsStated ==
    /\ (call.op \in {"Open", "Stat"} /\ ~HasLibDir(call.path)) =>
         call.host = call.path
    /\ (InterpLookedUp /\ ~HasLibDir(loader.Interp)) =>
         interpPath = loader.Interp

\* C17: PrefixPath(path, force) with LoadPrefix set and an absolute path is
\* LoadPrefix joined with the path if force is true or the joined path exists
\* on the host, and the path itself otherwise; a relative path, and any path
\* when LoadPrefix is empty, comes back unchanged.
C17_PrefixPath ==
    call.op = "PrefixPath" =>
        LET exists == hostStat = "nil"
        IN  call.ret = IF LoadPrefix # NoPath /\ call.path[1] = "/"
                       THEN IF call.force \/ exists THEN Prefixed(call.path)
                            ELSE call.path
                       ELSE call.path

\* C19: Getcwd hands at most size bytes to the guest buffer: the working
\* directory cut to size-1 bytes, then one NUL; for every size, 0 and 1 too.
C19_GetcwdInBuffer ==
    call.op = "Getcwd" =>
        /\ Len(call.packed) <= call.size
        /\ call.packed =
             [i \in 1..(IF Len(wd) < call.size - 1 THEN Len(wd) + 1
                        ELSE call.size) |->
                 IF i <= Len(wd) /\ i < call.size THEN wd[i] ELSE 0]

\* ---------------------------------------------------------------- C14
\* Run has returned from Unicorn.Start (not from a failed setup)
Finished == runResult.returned /\ runResult.err # "setup"

\* C14: when the guest called Exit(status) during the run, the engine was
\* stopped and Run returns the exit status carrying that status; when Exit was
\* never called, Run returns the engine's error, or nil when there is none
C14_ExitStatusIsResult ==
    /\ ~exitStatus.nil => engine = "stopped"
    /\ Finished =>
         IF ~exitStatus.nil
         THEN runResult.err = "exit" /\ runResult.status = exitStatus.status
         ELSE runResult.err = IF engine = "faulted" THEN "engine" ELSE "nil"

\* the guest called Exit(7) and Run returned status 7
C14_Witness ==
    /\ Finished
    /\ call = [op |-> "Exit", status |-> 7]
    /\ runResult.err = "exit"
    /\ runResult.status = 7

\* ---------------------------------------------------------------- C18
\* Run got past its setup: the engine was started
Started == engine # "idle"

GuardPage == Add64(StackBase, STACK_SIZE)

GuardMapped ==
    \E m \in memory :
        /\ m.start = GuardPage
        /\ m.end = GuardPage + UC_MEM_ALIGN
        /\ m.prot = PROT_NONE

InGuardPage(addr) == GuardPage <= addr /\ addr < GuardPage + UC_MEM_ALIGN

\* C18: once the engine is started SP is StackBase + STACK_SIZE, the page there
\* is mapped PROT_NONE, no read, write or fetch of it is permitted, and such an
\* access leaves the run faulted and Run returning the engine's error; a run
\* whose guard page could not be mapped returns an error with the engine idle
C18_StackGuard ==
    /\ Started =>
         /\ SP = GuardPage
         /\ GuardMapped
         /\ \A a \in {GuardPage, GuardPage + UC_MEM_ALIGN - 1} :
              \A access \in {"read", "write", "fetch"} :
                 ~Allowed(memory, a, NeededProt(access))
    /\ lastFault.access # "none" /\ InGuardPage(lastFault.addr) =>
         /\ engine = "faulted"
         /\ runResult.returned => runResult.err = "engine"
    /\ stage = "ready" /\ runResult.returned /\ ~GuardMapped =>
         engine = "idle" /\ runResult.err = "setup"

\* the guest wrote to the last byte of the guard page and Run returned the
\* engine's error
C18_Witness ==
    /\ Started
    /\ lastFault = [access |-> "write", addr |-> GuardPage + UC_MEM_ALIGN - 1]
    /\ runResult.returned
    /\ runResult.err = "engine"

\* ---------------------------------------------------------------- C11
\* C11: with a non-empty TraceMatch, code-hook and memory-hook output is only
\* produced inside a block that matched, whatever tracing switches are on; with
\* an empty TraceMatch the flag stays on
C11_Gating ==
    /\ TraceMatch # {} /\ lastOut.kind \in {"code", "mem"} => lastOut.matched
    /\ TraceMatch = {} => traceMatching

\* ---------------------------------------------------------------- C12
\* every access of the batch abuts the one before it, in the same direction
BatchAdjacent(log) ==
    \A i \in 1..(Len(log) - 1) :
        /\ log[i + 1].write = log[i].write
        /\ log[i + 1].addr = log[i].addr + log[i].size

C22_BrkAtomic ==
    brkCalls > 0 =>
        /\ lastBrk.err => brk = lastBrk.before /\ lastBrk.ret = lastBrk.before
        /\ brk # lastBrk.before =>
             ~lastBrk.err /\ lastBrk.arg > 0 /\ brk = lastBrk.arg

\* a guest asked for more heap and the mapping request was refused
C22_Witness ==
    /\ brkCalls > 0
    /\ lastBrk.err
    /\ lastBrk.arg > lastBrk.before
    /\ memory = lastBrk.memBefore

\* ---------------------------------------------------------------- C23
\* what mapBinary does with the main image alone
MainOnly == mapBinary([loader EXCEPT !.Interp = NoPath], FALSE, {})

ArchMismatch ==
    /\ loader.Interp # NoPath
    /\ interpFile # NoFile
    /\ interpFile.Arch # loader.Arch

\* C23: NewUsercorn's mapBinary is entered at most twice, the second time only
\* for an interpreter of the main image's architecture, also when the
\* interpreter names an interpreter of its own; when the architectures differ
\* mapBinary fails and nothing but the main image is mapped
C23_InterpBounded ==
    stage # "new" =>
        /\ mapCalls \in {1, 2}
        /\ mapCalls = 2 =>
             /\ loader.Interp # NoPath
             /\ interpFile # NoFile
             /\ interpFile.Arch = loader.Arch
        /\ ArchMismatch =>
             /\ stage = "failed"
             /\ mapCalls = 1
             /\ memory = MainOnly.mem

\* an interpreter that names an interpreter of its own was loaded, and nothing
\* after it
C23_Witness ==
    /\ stage = "ready"
    /\ interpFile.Interp # NoPath
    /\ mapCalls = 2
    /\ memory # MainOnly.mem

\* ---------------------------------------------------------------- C21
\* Run was called and a HookAdd that addHooks made was refused
HookAddFailed == runSteps # <<>> /\ hookAddErr \in HooksAsked

SetupFailed ==
    \/ HookAddFailed
    \/ runSteps \in {<<"addHooks">>, <<"addHooks", "mapStack">>,
                     <<"addHooks", "mapStack", "osInit">>}

\* C21: Start is invoked only after addHooks, mapStack and the OS initializer
\* ran, in that order; when hook registration, the stack mapping or the OS
\* initializer fails, Run returns an error and Start is never invoked
C21_StartupOrder ==
    /\ Started => runSteps = <<"addHooks", "mapStack", "osInit", "Start">>
    /\ SetupFailed => ~Started /\ runResult.returned /\ runResult.err = "setup"

====
